---- MODULE Spec2Model ----
(***************************************************************************)
(* Fuzzy Atmo-Engine: the fuzzy inference pipeline of run_fuzzy_logic      *)
(* (src/main.py) and the engines it builds (src/src/fuzzy_engine).         *)
(*                                                                         *)
(* Numbers.  Membership degrees are fixed-point integers 0..DS (DS is the  *)
(* degree 1.0).  A crisp value is a rational [n, d] (value n/d, d > 0).    *)
(* Points of an output universe are integers scaled by the universe's xs   *)
(* (xs sub-steps per universe step), so that the points scikit-fuzzy adds  *)
(* to the universe where a term crosses its cut are integers too.  The     *)
(* divisions below are exact for inputs on the plateaus and on the halves  *)
(* and thirds of the ramps; elsewhere a degree is rounded down to 1/DS.    *)
(* aod is carried in tenths (universe 0..50 for 0.0..5.0).                 *)
(***************************************************************************)
EXTENDS Integers, Sequences, FiniteSets, TLC

VARIABLES
    pc,                    \* position in run_fuzzy_logic
    raw_data,              \* the mapping handed to run_fuzzy_logic
    particle_risk_result,  \* None or a crisp value
    gas_risk_result,
    other_risk_result,
    final_aqi_score,
    recommendation_index,
    rec_text,
    forecast_risk_score,
    forecast_text,
    entered,               \* the numbered blocks that have been run
    raised,                \* the blocks whose try body raised
    reports,               \* what the runs of run_fuzzy_logic so far came to
    forecast_input,        \* forecast_simulation.input: the inputs that were set
    sim_engine,            \* evaluation session: the engine it is built on
    sim_input,             \* evaluation session: input name -> crisp value
    sim_state,             \* evaluation session: "ready", "computed", "raised"
    sim_firing,            \* evaluation session: rule -> firing strength
    sim_output             \* evaluation session: output name -> crisp value

pipeline_vars == <<pc, raw_data, particle_risk_result, gas_risk_result,
                   other_risk_result, final_aqi_score, recommendation_index,
                   rec_text, forecast_risk_score, forecast_text, entered, raised,
                   reports, forecast_input>>

sim_vars == <<sim_engine, sim_input, sim_state, sim_firing, sim_output>>

vars == <<pipeline_vars, sim_vars>>

\* The absent value (Python None): no rational has d = 0.
None == [n |-> 0, d |-> 0]

\* Degree 1.0 of a membership function.
DS == 60

Min2(a, b) == IF a <= b THEN a ELSE b
Max2(a, b) == IF a >= b THEN a ELSE b
Min3(a, b, c) == Min2(a, Min2(b, c))
Max3(a, b, c) == Max2(a, Max2(b, c))

\* A crisp value n/d.
Q(n, d) == [n |-> n, d |-> d]

\* A value that is no number (a string in the JSON data).
Bad == [n |-> 0, d |-> -1]

IsNumber(x) == x.d > 0
Whole(n) == Q(n, 1)
QLe(x, y) == x.n * y.d <= y.n * x.d
QLt(x, y) == x.n * y.d < y.n * x.d
QGe(x, y) == QLe(y, x)

(***************************************************************************)
(* Membership function library (fuzz.trimf, fuzz.trapmf), at one point.    *)
(***************************************************************************)
trimf(x, a, b, c) ==
    IF x = b THEN DS
    ELSE IF a < x /\ x < b THEN (DS * (x - a)) \div (b - a)
    ELSE IF b < x /\ x < c THEN (DS * (c - x)) \div (c - b)
    ELSE 0

\* The plateau of a trapezoid without its ramps.
trapmf_plateau(x, a, b, c, d) == IF b <= x /\ x <= c THEN DS ELSE 0

\* A trapezoid whose plateau up to the end of the universe is left out: the
\* degree falls from b on.
trapmf_falling(x, a, b, c, d) ==
    IF x < a \/ x > d THEN 0
    ELSE IF c = d /\ x > b THEN trimf(x, a, b, d)
    ELSE IF x >= c THEN trimf(x, c, c, d)
    ELSE IF x <= b THEN trimf(x, a, b, b)
    ELSE DS

trapmf(x, a, b, c, d) ==
    IF x < a \/ x > d THEN 0
    ELSE IF x >= c THEN trimf(x, c, c, d)
    ELSE IF x <= b THEN trimf(x, a, b, b)
    ELSE DS

\* The sampled curve of a term: abcd has 4 entries (trapmf) or 3 (trimf).
TermMF(abcd, x) ==
    IF Len(abcd) = 4 THEN trapmf(x, abcd[1], abcd[2], abcd[3], abcd[4])
    ELSE trimf(x, abcd[1], abcd[2], abcd[3])

(***************************************************************************)
(* Linguistic variables (ctrl.Antecedent, ctrl.Consequent).                *)
(* An antecedent keeps its universe [lo, hi, step] and the breakpoints of  *)
(* its terms; a consequent has universe 0..hi with step 1, xs sub-steps    *)
(* per step, and the sampled curve mf[label][i] of every term.             *)
(***************************************************************************)
Antecedent(lo, hi, step, terms) ==
    [lo |-> lo, hi |-> hi, step |-> step, terms |-> terms]

Consequent(hi, xs, terms) ==
    [hi |-> hi, xs |-> xs, terms |-> terms,
     mf |-> [l \in DOMAIN terms |-> [i \in 0..hi |-> TermMF(terms[l], i)]]]

\* The value taken as it is, whether in the universe or not.
NoClip(v, x) == x

\* simulation.input[name] = value: the value is clipped to the universe.
ClipToBounds(v, x) ==
    IF QLt(x, Whole(v.lo)) THEN Whole(v.lo)
    ELSE IF QLt(Whole(v.hi), x) THEN Whole(v.hi)
    ELSE x

\* fuzz.interp_membership: the degree of crisp x in a term, by linear
\* interpolation between the two universe samples around x.
interp_membership(v, label, x) ==
    LET k  == (x.n - v.lo * x.d) \div (v.step * x.d)
        u0 == v.lo + k * v.step
        m0 == TermMF(v.terms[label], u0)
        m1 == TermMF(v.terms[label], u0 + v.step)
    IN  IF QLt(x, Whole(v.lo)) \/ QLt(Whole(v.hi), x) THEN 0
        ELSE IF x.n = u0 * x.d THEN m0
        ELSE m0 + ((m1 - m0) * (x.n - u0 * x.d)) \div (v.step * x.d)

\* Fuzzification of an input as the simulation does it.
Fuzzify(v, label, x) == interp_membership(v, label, ClipToBounds(v, x))

\* Zadeh operators of a rule's antecedent: & is fmin, | is fmax, ~ is 1 - x.
Not(x) == DS - x

SetMax(S) == CHOOSE x \in S : \A y \in S : y <= x
SetMin(S) == CHOOSE x \in S : \A y \in S : x <= y

(***************************************************************************)
(* Defuzzification (CrispValueCalculator.defuzz with centroid): the        *)
(* universe is extended by the points where a term's curve crosses its     *)
(* cut, every term is clipped at its cut, the clipped terms are joined by  *)
(* maximum, and the centroid of the polygon through the points is taken.   *)
(* cuts maps the labels some rule implies to their accumulated strength.   *)
(***************************************************************************)
\* Does the term cross its cut between universe points i and i+1 ?
Crosses(c, m1, m2) ==
    IF c = 0 THEN (m1 > 0) # (m2 > 0) ELSE (m1 >= c) # (m2 >= c)

\* The added points of the interval [i, i+1], as offsets 0..xs from i.
CrossOffsets(v, cuts, i) ==
    { ((cuts[l] - v.mf[l][i]) * v.xs) \div (v.mf[l][i + 1] - v.mf[l][i]) :
        l \in {k \in DOMAIN cuts : Crosses(cuts[k], v.mf[k][i], v.mf[k][i + 1])} }

\* The aggregated degree at offset o of the interval [i, i+1].
Aggregated(v, cuts, i, o) ==
    SetMax({ Min2(cuts[l],
                  v.mf[l][i] + ((v.mf[l][i + 1] - v.mf[l][i]) * o) \div v.xs) :
             l \in DOMAIN cuts })

\* <<2 * area, 6 * moment>> of the trapezoid (x1,y1)-(x2,y2).
Segment(x1, y1, x2, y2) ==
    IF y1 = 0 /\ y2 = 0 THEN <<0, 0>>
    ELSE <<(x2 - x1) * (y1 + y2),
           (x2 - x1) * (x1 * (2 * y1 + y2) + x2 * (y1 + 2 * y2))>>

Add2(p, q) == <<p[1] + q[1], p[2] + q[2]>>

RECURSIVE SumOffsets(_, _, _, _, _)
SumOffsets(v, cuts, i, o1, rest) ==
    IF rest = {} THEN <<0, 0>>
    ELSE LET o2 == SetMin(rest)
         IN  Add2(Segment(i * v.xs + o1, Aggregated(v, cuts, i, o1),
                          i * v.xs + o2, Aggregated(v, cuts, i, o2)),
                  SumOffsets(v, cuts, i, o2, rest \ {o2}))

\* The sums over the interval [i, i+1]; nothing where every clipped term is 0.
IntervalSums(v, cuts, i) ==
    IF \A l \in DOMAIN cuts : cuts[l] = 0 \/ (v.mf[l][i] = 0 /\ v.mf[l][i + 1] = 0)
    THEN <<0, 0>>
    ELSE SumOffsets(v, cuts, i, 0, (CrossOffsets(v, cuts, i) \cup {v.xs}) \ {0})

RECURSIVE SumIntervals(_, _, _, _)
SumIntervals(v, cuts, lo, hi) ==
    IF lo = hi THEN IntervalSums(v, cuts, lo)
    ELSE LET mid == (lo + hi) \div 2
         IN  Add2(SumIntervals(v, cuts, lo, mid), SumIntervals(v, cuts, mid + 1, hi))

\* The crisp output, or None when the aggregated set is all zero
\* (defuzz raises "Total area is zero", compute raises ValueError).
\* The centroid with 0 returned for an all-zero set instead of the raise.
CentroidOrZero(v, s) ==
    IF s[1] = 0 THEN Whole(0) ELSE Q(s[2], 3 * s[1] * v.xs)

Centroid(v, s) ==
    IF s[1] = 0 THEN None ELSE Q(s[2], 3 * s[1] * v.xs)

Defuzz(v, cuts) == Centroid(v, SumIntervals(v, cuts, 0, v.hi - 1))

(***************************************************************************)
(* Output of the three subsystems: UNIVERSE_RISK with four terms.          *)
(***************************************************************************)
RiskTerms ==
    [low      |-> <<0, 0, 15, 30>>,
     medium   |-> <<15, 30, 45, 60>>,
     high     |-> <<45, 60, 75, 90>>,
     critical |-> <<75, 90, 100, 100>>]

\* Sub-steps per universe step of a risk output.
RiskXS == 4

particle_risk == Consequent(100, RiskXS, RiskTerms)
gas_risk == Consequent(100, RiskXS, RiskTerms)
other_risk == Consequent(100, RiskXS, RiskTerms)

(***************************************************************************)
(* Particle subsystem.  aod is in tenths.                                  *)
(***************************************************************************)
pm2_5 == Antecedent(0, 500, 1,
    [good      |-> <<0, 0, 10, 15>>,
     moderate  |-> <<10, 15, 30, 40>>,
     unhealthy |-> <<30, 40, 140, 160>>,
     hazardous |-> <<140, 160, 500, 500>>])

pm10 == Antecedent(0, 600, 1,
    [good      |-> <<0, 0, 40, 60>>,
     moderate  |-> <<40, 60, 140, 170>>,
     unhealthy |-> <<140, 170, 340, 360>>,
     hazardous |-> <<340, 360, 600, 600>>])

aod == Antecedent(0, 50, 1,
    [low    |-> <<0, 0, 5, 10>>,
     medium |-> <<5, 10, 20, 30>>,
     high   |-> <<20, 30, 50, 50>>])

dust == Antecedent(0, 1000, 1,
    [low    |-> <<0, 0, 50, 150>>,
     medium |-> <<50, 150, 300, 450>>,
     high   |-> <<300, 450, 1000, 1000>>])

\* Firing strength of each rule of get_particle_rules for the inputs x.
get_particle_rules(x) ==
    LET m(v, name, l) == Fuzzify(v, l, x[name])
    IN  [rule1  |-> m(pm2_5, "pm2_5", "hazardous"),
         rule2  |-> m(pm10, "pm10", "hazardous"),
         rule3  |-> m(pm2_5, "pm2_5", "unhealthy"),
         rule4  |-> m(pm10, "pm10", "unhealthy"),
         rule5  |-> Min2(m(dust, "dust", "high"), m(aod, "aod", "high")),
         rule6  |-> Min2(m(dust, "dust", "medium"), m(aod, "aod", "medium")),
         rule7  |-> Max2(m(pm2_5, "pm2_5", "moderate"), m(pm10, "pm10", "moderate")),
         rule8  |-> Min2(m(pm2_5, "pm2_5", "moderate"), m(pm10, "pm10", "moderate")),
         rule9  |-> Min2(Min2(m(pm2_5, "pm2_5", "good"), m(pm10, "pm10", "good")),
                         Min2(m(aod, "aod", "low"), m(dust, "dust", "low"))),
         rule10 |-> Min2(m(pm2_5, "pm2_5", "good"), m(pm10, "pm10", "good"))]

\* The cut of each Particle_Risk term: the maximum over the rules implying it.
ParticleCuts(r) ==
    [critical |-> Max2(r.rule1, r.rule2),
     high     |-> Max3(r.rule3, r.rule4, r.rule5),
     medium   |-> Max3(r.rule6, r.rule7, r.rule8),
     low      |-> Max2(r.rule9, r.rule10)]

\* particle_simulation.compute() after the inputs are set:
\* output['Particle_Risk'], or None when either raises.
ParticleCompute(x) ==
    IF \E k \in DOMAIN x : ~IsNumber(x[k]) THEN None
    ELSE Defuzz(particle_risk, ParticleCuts(get_particle_rules(x)))

(***************************************************************************)
(* Gas subsystem.                                                          *)
(***************************************************************************)
co == Antecedent(0, 50000, 10,
    [good      |-> <<0, 0, 9000, 10000>>,
     moderate  |-> <<9000, 10000, 12000, 13000>>,
     unhealthy |-> <<12000, 13000, 15000, 16000>>,
     hazardous |-> <<15000, 16000, 50000, 50000>>])

no2 == Antecedent(0, 2000, 1,
    [good      |-> <<0, 0, 80, 120>>,
     moderate  |-> <<80, 120, 300, 400>>,
     unhealthy |-> <<300, 400, 600, 700>>,
     hazardous |-> <<600, 700, 2000, 2000>>])

so2 == Antecedent(0, 2000, 1,
    [good      |-> <<0, 0, 80, 100>>,
     moderate  |-> <<80, 100, 300, 400>>,
     unhealthy |-> <<300, 400, 700, 900>>,
     hazardous |-> <<700, 900, 2000, 2000>>])

\* get_gas_rules with rule4 joined by | where the code has &.
get_gas_rules_any_good(x) ==
    LET m(v, name, l) == Fuzzify(v, l, x[name])
    IN  [rule1 |-> Max3(m(co, "co", "hazardous"), m(no2, "no2", "hazardous"),
                        m(so2, "so2", "hazardous")),
         rule2 |-> Max3(m(co, "co", "unhealthy"), m(no2, "no2", "unhealthy"),
                        m(so2, "so2", "unhealthy")),
         rule3 |-> Max3(m(co, "co", "moderate"), m(no2, "no2", "moderate"),
                        m(so2, "so2", "moderate")),
         rule4 |-> Max3(m(co, "co", "good"), m(no2, "no2", "good"),
                        m(so2, "so2", "good"))]

\* Firing strength of each rule of get_gas_rules for the inputs x.
get_gas_rules(x) ==
    LET m(v, name, l) == Fuzzify(v, l, x[name])
    IN  [rule1 |-> Max3(m(co, "co", "hazardous"), m(no2, "no2", "hazardous"),
                        m(so2, "so2", "hazardous")),
         rule2 |-> Max3(m(co, "co", "unhealthy"), m(no2, "no2", "unhealthy"),
                        m(so2, "so2", "unhealthy")),
         rule3 |-> Max3(m(co, "co", "moderate"), m(no2, "no2", "moderate"),
                        m(so2, "so2", "moderate")),
         rule4 |-> Min3(m(co, "co", "good"), m(no2, "no2", "good"),
                        m(so2, "so2", "good"))]

\* The cut of each Gas_Risk term: the strength of the rule that implies it.
GasCuts(r) ==
    [critical |-> r.rule1, high |-> r.rule2, medium |-> r.rule3, low |-> r.rule4]

\* gas_simulation.compute() after the inputs are set:
\* output['Gas_Risk'], or None when either raises.
GasCompute(x) ==
    IF \E k \in DOMAIN x : ~IsNumber(x[k]) THEN None
    ELSE Defuzz(gas_risk, GasCuts(get_gas_rules(x)))

(***************************************************************************)
(* Other subsystem (ozone, ammonia).                                       *)
(***************************************************************************)
o3 == Antecedent(0, 1000, 1,
    [good      |-> <<0, 0, 80, 120>>,
     moderate  |-> <<80, 120, 170, 190>>,
     unhealthy |-> <<170, 190, 230, 250>>,
     hazardous |-> <<230, 250, 1000, 1000>>])

nh3 == Antecedent(0, 1000, 1,
    [low    |-> <<0, 0, 50, 100>>,
     medium |-> <<50, 100, 200, 300>>,
     high   |-> <<200, 300, 1000, 1000>>])

\* Firing strength of each rule of get_other_rules for the inputs x.
get_other_rules(x) ==
    LET m(v, name, l) == Fuzzify(v, l, x[name])
    IN  [rule1 |-> m(o3, "o3", "hazardous"),
         rule2 |-> m(o3, "o3", "unhealthy"),
         rule3 |-> m(nh3, "nh3", "high"),
         rule4 |-> m(o3, "o3", "moderate"),
         rule5 |-> Min2(m(o3, "o3", "moderate"), m(nh3, "nh3", "high")),
         rule6 |-> Min2(m(o3, "o3", "good"), m(nh3, "nh3", "low"))]

OtherCuts(r) ==
    [critical |-> r.rule1,
     high     |-> Max2(r.rule2, r.rule5),
     medium   |-> Max2(r.rule3, r.rule4),
     low      |-> r.rule6]

\* other_simulation.compute() after the inputs are set:
\* output['Other_Risk'], or None when either raises.
OtherCompute(x) ==
    IF \E k \in DOMAIN x : ~IsNumber(x[k]) THEN None
    ELSE Defuzz(other_risk, OtherCuts(get_other_rules(x)))

(***************************************************************************)
(* Master system.                                                          *)
(***************************************************************************)
particle_risk_in == Antecedent(0, 100, 1, RiskTerms)
gas_risk_in == Antecedent(0, 100, 1, RiskTerms)
other_risk_in == Antecedent(0, 100, 1, RiskTerms)

\* Sub-steps per universe step of Final_AQI and of Recommendation.
AqiXS == 3
RecXS == 15

final_aqi == Consequent(500, AqiXS,
    [good        |-> <<0, 0, 40, 60>>,
     moderate    |-> <<40, 60, 90, 110>>,
     unhealthy_S |-> <<90, 110, 140, 160>>,
     unhealthy   |-> <<140, 160, 190, 210>>,
     hazardous   |-> <<190, 210, 500, 500>>])

recommendation == Consequent(10, RecXS,
    [stay_home      |-> <<0, 1, 3>>,
     limit_activity |-> <<2, 4, 6>>,
     go_out_safe    |-> <<5, 7, 9>>,
     perfect_day    |-> <<7, 9, 10>>])

\* Degree of each master input in a term.
MasterDegree(x, l) ==
    [p |-> Fuzzify(particle_risk_in, l, x.particle_risk_in),
     g |-> Fuzzify(gas_risk_in, l, x.gas_risk_in),
     o |-> Fuzzify(other_risk_in, l, x.other_risk_in)]

\* get_master_rules without the ~high and ~critical guards.
get_master_rules_unguarded(x) ==
    LET low  == MasterDegree(x, "low")
        med  == MasterDegree(x, "medium")
        high == MasterDegree(x, "high")
        crit == MasterDegree(x, "critical")
    IN  [rule1   |-> Max3(crit.p, crit.g, crit.o),
         rule2   |-> Max3(high.p, high.g, high.o),
         rule3   |-> Max3(med.p, med.g, med.o),
         rule3_5 |-> Max3(Max2(Min2(low.p, med.g), Min2(med.p, low.g)),
                          Max2(Min2(low.p, med.o), Min2(med.p, low.o)),
                          Max2(Min2(low.g, med.o), Min2(med.g, low.o))),
         rule4   |-> Min3(low.p, low.g, low.o)]

\* get_master_rules with rule1 joined by & where the code has |.
get_master_rules_all_critical(x) ==
    LET low  == MasterDegree(x, "low")
        med  == MasterDegree(x, "medium")
        high == MasterDegree(x, "high")
        crit == MasterDegree(x, "critical")
        no_critical == Min3(Not(crit.p), Not(crit.g), Not(crit.o))
        no_high     == Min3(Not(high.p), Not(high.g), Not(high.o))
    IN  [rule1   |-> Min3(crit.p, crit.g, crit.o),
         rule2   |-> Min2(Max3(high.p, high.g, high.o), no_critical),
         rule3   |-> Min3(Max3(med.p, med.g, med.o), no_high, no_critical),
         rule3_5 |-> Min3(Max3(Max2(Min2(low.p, med.g), Min2(med.p, low.g)),
                               Max2(Min2(low.p, med.o), Min2(med.p, low.o)),
                               Max2(Min2(low.g, med.o), Min2(med.g, low.o))),
                          no_high, no_critical),
         rule4   |-> Min3(low.p, low.g, low.o)]

\* get_master_rules with the three 'medium' of rule3 joined by & where the
\* code has |.
get_master_rules_all_medium(x) ==
    LET low  == MasterDegree(x, "low")
        med  == MasterDegree(x, "medium")
        high == MasterDegree(x, "high")
        crit == MasterDegree(x, "critical")
        no_critical == Min3(Not(crit.p), Not(crit.g), Not(crit.o))
        no_high     == Min3(Not(high.p), Not(high.g), Not(high.o))
    IN  [rule1   |-> Max3(crit.p, crit.g, crit.o),
         rule2   |-> Min2(Max3(high.p, high.g, high.o), no_critical),
         rule3   |-> Min3(Min3(med.p, med.g, med.o), no_high, no_critical),
         rule3_5 |-> Min3(Max3(Max2(Min2(low.p, med.g), Min2(med.p, low.g)),
                               Max2(Min2(low.p, med.o), Min2(med.p, low.o)),
                               Max2(Min2(low.g, med.o), Min2(med.g, low.o))),
                          no_high, no_critical),
         rule4   |-> Min3(low.p, low.g, low.o)]

\* get_master_rules with rule4 joined by | where the code has &.
get_master_rules_any_low(x) ==
    LET low  == MasterDegree(x, "low")
        med  == MasterDegree(x, "medium")
        high == MasterDegree(x, "high")
        crit == MasterDegree(x, "critical")
        no_critical == Min3(Not(crit.p), Not(crit.g), Not(crit.o))
        no_high     == Min3(Not(high.p), Not(high.g), Not(high.o))
    IN  [rule1   |-> Max3(crit.p, crit.g, crit.o),
         rule2   |-> Min2(Max3(high.p, high.g, high.o), no_critical),
         rule3   |-> Min3(Max3(med.p, med.g, med.o), no_high, no_critical),
         rule3_5 |-> Min3(Max3(Max2(Min2(low.p, med.g), Min2(med.p, low.g)),
                               Max2(Min2(low.p, med.o), Min2(med.p, low.o)),
                               Max2(Min2(low.g, med.o), Min2(med.g, low.o))),
                          no_high, no_critical),
         rule4   |-> Max3(low.p, low.g, low.o)]

\* Firing strength of each rule of get_master_rules for the inputs x.
get_master_rules(x) ==
    LET low  == MasterDegree(x, "low")
        med  == MasterDegree(x, "medium")
        high == MasterDegree(x, "high")
        crit == MasterDegree(x, "critical")
        no_critical == Min3(Not(crit.p), Not(crit.g), Not(crit.o))
        no_high     == Min3(Not(high.p), Not(high.g), Not(high.o))
    IN  [rule1   |-> Max3(crit.p, crit.g, crit.o),
         rule2   |-> Min2(Max3(high.p, high.g, high.o), no_critical),
         rule3   |-> Min3(Max3(med.p, med.g, med.o), no_high, no_critical),
         rule3_5 |-> Min3(Max3(Max2(Min2(low.p, med.g), Min2(med.p, low.g)),
                               Max2(Min2(low.p, med.o), Min2(med.p, low.o)),
                               Max2(Min2(low.g, med.o), Min2(med.g, low.o))),
                          no_high, no_critical),
         rule4   |-> Min3(low.p, low.g, low.o)]

\* The cuts of the Final_AQI terms with rule3_5 implying unhealthy_S.
AqiCutsWithSensitive(r) ==
    [hazardous   |-> r.rule1,
     unhealthy   |-> r.rule2,
     unhealthy_S |-> r.rule3_5,
     moderate    |-> r.rule3,
     good        |-> r.rule4]

\* The cuts of the Final_AQI terms (unhealthy_S is implied by no rule).
AqiCuts(r) ==
    [hazardous |-> r.rule1,
     unhealthy |-> r.rule2,
     moderate  |-> Max2(r.rule3, r.rule3_5),
     good      |-> r.rule4]

\* The cuts of the Recommendation terms.
RecCuts(r) ==
    [stay_home      |-> r.rule1,
     limit_activity |-> r.rule2,
     go_out_safe    |-> Max2(r.rule3, r.rule3_5),
     perfect_day    |-> r.rule4]

\* Setting the inputs and master_simulation.compute(): both outputs.  It
\* raises when an input is no number or when the aggregated set of an output
\* is all zero: that output is None here, and Raises tells the caller.
MasterCompute(x) ==
    IF \E k \in DOMAIN x : ~IsNumber(x[k])
    THEN [Final_AQI |-> None, Recommendation |-> None]
    ELSE LET r == get_master_rules(x)
         IN  [Final_AQI      |-> Defuzz(final_aqi, AqiCuts(r)),
              Recommendation |-> Defuzz(recommendation, RecCuts(r))]

Raises(out) == \E k \in DOMAIN out : out[k] = None

\* The threshold map of the recommendation index (main.py).
RecommendationText(index) ==
    IF QLe(index, Whole(3)) THEN "stay_home"
    ELSE IF QLe(index, Q(13, 2)) THEN "limit_activity"
    ELSE IF QLe(index, Whole(9)) THEN "safe_to_go_out"
    ELSE "perfect_day"

(***************************************************************************)
(* Forecast preprocessor.  An hourly mapping is a function from the keys   *)
(* present to sequences; a timestamp is [valid, hour], the hour being what *)
(* datetime.fromisoformat(...).hour reads from a valid ISO-8601 string.    *)
(***************************************************************************)
RECURSIVE SeqSum(_)
SeqSum(a) == IF a = <<>> THEN 0 ELSE a[1] + SeqSum(Tail(a))

SeqMax(a) == SetMax({a[i] : i \in 1..Len(a)})

\* The last index of the maximum where the code takes the first.
ArgMaxLast(a) == SetMax({i \in 1..Len(a) : a[i] = SeqMax(a)}) - 1

\* np.nanargmax: the first index of the maximum (0-based).
ArgMax(a) == SetMin({i \in 1..Len(a) : a[i] = SeqMax(a)}) - 1

\* hourly_data.get(key, []) with the slice forgotten.
get_whole_array(hourly_data, key, slice_hours) ==
    IF key \in DOMAIN hourly_data THEN hourly_data[key] ELSE <<>>

\* hourly_data.get(key, [])[:slice_hours]
get_sliced_array(hourly_data, key, slice_hours) ==
    LET a == IF key \in DOMAIN hourly_data THEN hourly_data[key] ELSE <<>>
    IN  SubSeq(a, 1, Min2(slice_hours, Len(a)))

QMax(x, y) == IF QGe(x, y) THEN x ELSE y

\* An empty array counted as a gas at its threshold.
NormMeanEmptyAtThreshold(a, threshold) ==
    IF Len(a) > 0 THEN Q(SeqSum(a), threshold * Len(a)) ELSE Whole(1)

\* mean(a) / threshold capped at 1.
NormMeanCapped(a, threshold) ==
    IF Len(a) = 0 THEN Whole(0)
    ELSE IF SeqSum(a) > threshold * Len(a) THEN Whole(1)
    ELSE Q(SeqSum(a), threshold * Len(a))

\* mean(a) / threshold, or 0 for an empty array.
NormMean(a, threshold) ==
    IF Len(a) > 0 THEN Q(SeqSum(a), threshold * Len(a)) ELSE Whole(0)

\* The returned mapping; empty is TRUE for the empty dict.
EmptyInputs ==
    [empty |-> TRUE, pm_avg |-> None, pm_max |-> None, pm_hours_bad |-> None,
     pm_peak_hour |-> 0, gas_norm_risk |-> None, o3_max |-> None]

\* The mapping filled so far returned where the code returns {}.
ReturnPartial(processed_inputs) == processed_inputs

\* except Exception: whatever was filled in so far, the empty dict is returned.
OnPreprocessException(processed_inputs) == EmptyInputs

\* The test for the key only, an empty time array let through.
TimeKeyAbsent(hourly_data) == "time" \notin DOMAIN hourly_data

\* 'time' not in hourly_data or not hourly_data['time']
NoTimeAxis(hourly_data) ==
    "time" \notin DOMAIN hourly_data \/ hourly_data["time"] = <<>>

preprocess_hourly_data(hourly_data, hours_to_forecast) ==
    IF NoTimeAxis(hourly_data)
    THEN EmptyInputs
    ELSE
    LET slice_hours == Min2(Len(hourly_data["time"]), hours_to_forecast)
        time_array  == SubSeq(hourly_data["time"], 1, slice_hours)
        pm2_5_array == get_sliced_array(hourly_data, "pm2_5", slice_hours)
        so2_array   == get_sliced_array(hourly_data, "sulphur_dioxide", slice_hours)
        no2_array   == get_sliced_array(hourly_data, "nitrogen_dioxide", slice_hours)
        co_array    == get_sliced_array(hourly_data, "carbon_monoxide", slice_hours)
        o3_array    == get_sliced_array(hourly_data, "ozone", slice_hours)
        peak_index  == ArgMax(pm2_5_array) + 1
        peak        == time_array[peak_index]
        gas         == QMax(NormMean(so2_array, 700),
                            QMax(NormMean(no2_array, 600), NormMean(co_array, 15000)))
    IN  \* datetime.fromisoformat of a timestamp that is no string raises
        \* TypeError, which the inner except does not catch: the outer one
        \* does, after pm_avg, pm_max and pm_hours_bad were filled in.
        IF /\ Len(pm2_5_array) > 0
           /\ peak_index \in DOMAIN time_array
           /\ peak = None
        THEN OnPreprocessException(
                 [empty |-> FALSE,
                  pm_avg |-> Q(SeqSum(pm2_5_array), Len(pm2_5_array)),
                  pm_max |-> Whole(SeqMax(pm2_5_array)),
                  pm_hours_bad |-> Whole(Cardinality({i \in 1..Len(pm2_5_array) :
                                                        pm2_5_array[i] > 40}))])
        ELSE
        [empty |-> FALSE,
         pm_avg |-> IF Len(pm2_5_array) > 0
                    THEN Q(SeqSum(pm2_5_array), Len(pm2_5_array)) ELSE Whole(0),
         pm_max |-> IF Len(pm2_5_array) > 0
                    THEN Whole(SeqMax(pm2_5_array)) ELSE Whole(0),
         pm_hours_bad |-> IF Len(pm2_5_array) > 0
                          THEN Whole(Cardinality({i \in 1..Len(pm2_5_array) :
                                                    pm2_5_array[i] > 40}))
                          ELSE Whole(0),
         pm_peak_hour |-> IF /\ Len(pm2_5_array) > 0
                             /\ peak_index \in DOMAIN time_array
                             /\ peak.valid
                          THEN peak.hour ELSE -1,
         gas_norm_risk |-> Q(100 * gas.n, gas.d),
         o3_max |-> IF Len(o3_array) > 0 THEN Whole(SeqMax(o3_array)) ELSE Whole(0)]

(***************************************************************************)
(* Forecast system.                                                        *)
(***************************************************************************)
pm_avg == Antecedent(0, 500, 1,
    [low |-> <<0, 0, 10, 15>>, med |-> <<10, 15, 30, 40>>, high |-> <<30, 40, 500, 500>>])

pm_max == Antecedent(0, 500, 1,
    [low |-> <<0, 0, 30, 45>>, med |-> <<30, 45, 100, 150>>, high |-> <<100, 150, 500, 500>>])

pm_hours_bad == Antecedent(0, 24, 1,
    [low |-> <<0, 0, 1, 3>>, med |-> <<1, 3, 6, 10>>, high |-> <<6, 10, 24, 24>>])

gas_norm_risk == Antecedent(0, 100, 1,
    [low |-> <<0, 0, 10, 20>>, med |-> <<10, 20, 50, 60>>, high |-> <<50, 60, 100, 100>>])

o3_max == Antecedent(0, 1000, 1,
    [low |-> <<0, 0, 80, 120>>, med |-> <<80, 120, 170, 190>>, high |-> <<170, 190, 1000, 1000>>])

\* Sub-steps per universe step of Forecast_Risk.
ForecastXS == 12

forecast_risk == Consequent(100, ForecastXS,
    [low      |-> <<0, 15, 30>>,
     medium   |-> <<25, 45, 65>>,
     high     |-> <<60, 75, 90>>,
     critical |-> <<85, 95, 100>>])

\* Firing strength of each rule of create_forecast_engine for the inputs x.
forecast_rules(x) ==
    LET avg(l)   == Fuzzify(pm_avg, l, x.pm_avg)
        peak(l)  == Fuzzify(pm_max, l, x.pm_max)
        hours(l) == Fuzzify(pm_hours_bad, l, x.pm_hours_bad)
        gas(l)   == Fuzzify(gas_norm_risk, l, x.gas_norm_risk)
        oz(l)    == Fuzzify(o3_max, l, x.o3_max)
    IN  [rule1 |-> Max3(peak("high"), gas("high"), oz("high")),
         rule2 |-> Max2(avg("high"), hours("high")),
         rule3 |-> Max3(peak("med"), gas("med"), oz("med")),
         rule4 |-> Max2(hours("med"), avg("med")),
         rule5 |-> Min2(Min3(avg("low"), peak("low"), hours("low")),
                        Min2(gas("low"), oz("low")))]

ForecastCuts(r) ==
    [critical |-> r.rule1,
     high     |-> r.rule2,
     medium   |-> Max2(r.rule3, r.rule4),
     low      |-> r.rule5]

\* forecast_simulation.compute() after the five inputs are set:
\* output['Forecast_Risk'], or None when either raises.
ForecastCompute(x) ==
    IF \E k \in DOMAIN x : ~IsNumber(x[k]) THEN None
    ELSE Defuzz(forecast_risk, ForecastCuts(forecast_rules(x)))

\* The peak-time text chosen from pm_peak_hour when the risk is above 30.
PeakTimeText(risk, peak_hour) ==
    IF ~QLt(Whole(30), risk) THEN ""
    ELSE IF 5 <= peak_hour /\ peak_hour < 12 THEN "morning"
    ELSE IF 12 <= peak_hour /\ peak_hour < 18 THEN "day"
    ELSE IF 18 <= peak_hour /\ peak_hour <= 23 THEN "evening"
    ELSE IF 0 <= peak_hour /\ peak_hour < 5 THEN "night"
    ELSE ""

\* forecast_text: the risk level and, above the low level, the peak time.
ForecastText(risk, peak_hour) ==
    IF QLe(risk, Whole(30)) THEN [level |-> "low", peak |-> ""]
    ELSE IF QLe(risk, Whole(65))
         THEN [level |-> "medium", peak |-> PeakTimeText(risk, peak_hour)]
         ELSE [level |-> "high", peak |-> PeakTimeText(risk, peak_hour)]

(***************************************************************************)
(* run_fuzzy_logic (src/main.py).  A mapping (dict) is a function from the *)
(* keys present; a value is a number, None (JSON null) or Bad.             *)
(***************************************************************************)
EmptyDict == [k \in {} |-> None]

DictGet(m, key, default) == IF key \in DOMAIN m THEN m[key] ELSE default

\* `value or 0`: None and 0 are falsy.
OrZero(v) == IF v = None \/ (IsNumber(v) /\ v.n = 0) THEN Whole(0) ELSE v

\* current_data.get(key, 0) or 0
Reading(current_data, key) == OrZero(DictGet(current_data, key, Whole(0)))

current_data == DictGet(raw_data, "current", EmptyDict)
hourly_data == DictGet(raw_data, "hourly", EmptyDict)

\* No handler: the exception leaves run_fuzzy_logic.
Propagate(next) == "aborted"

\* except Exception: the handler logs and the run goes on with the next block.
OnException(next) == next

\* any(...) where the code has all(...).
AnyRiskReady(p, g, o) == p # None \/ g # None \/ o # None

\* all(r is not None for r in [...]): the condition for running the master.
MasterReady(p, g, o) == p # None /\ g # None /\ o # None

\* What a run came to: the data it was given and the values it ended with.
Report(cancelled, aqi, text) ==
    [raw_data |-> raw_data, cancelled |-> cancelled,
     Particle_Risk |-> particle_risk_result, Gas_Risk |-> gas_risk_result,
     Other_Risk |-> other_risk_result, Final_AQI |-> aqi,
     Recommendation |-> recommendation_index, rec_text |-> text,
     Forecast_Risk |-> forecast_risk_score, forecast_text |-> forecast_text]

\* Lines 94-107: no 'current' data cancels the run; else the results are
\* initialised.
Start ==
    /\ pc = "start"
    /\ IF DOMAIN current_data = {}
       THEN /\ pc' = "cancelled"
            /\ reports' = Append(reports, Report(TRUE, final_aqi_score, rec_text))
            /\ UNCHANGED <<particle_risk_result, gas_risk_result, other_risk_result,
                           final_aqi_score, rec_text, forecast_text>>
       ELSE /\ pc' = "particle"
            /\ UNCHANGED reports
            /\ particle_risk_result' = None
            /\ gas_risk_result' = None
            /\ other_risk_result' = None
            /\ final_aqi_score' = None
            /\ rec_text' = "N/A"
            /\ forecast_text' = [level |-> "not_run", peak |-> ""]
    /\ UNCHANGED <<raw_data, recommendation_index, forecast_risk_score, entered,
                   raised, forecast_input, sim_vars>>

\* 1. Particles.
ParticleStage ==
    /\ pc = "particle"
    /\ LET inputs_values ==
               [pm2_5 |-> Reading(current_data, "pm2_5"),
                pm10  |-> Reading(current_data, "pm10"),
                aod   |-> Reading(current_data, "aerosol_optical_depth"),
                dust  |-> Reading(current_data, "dust")]
       IN  \E result \in {ParticleCompute(inputs_values)} :
           /\ particle_risk_result' = result
           /\ raised' = IF result = None THEN raised \cup {"particle"} ELSE raised
           /\ pc' = IF result = None THEN OnException("gas") ELSE "gas"
    /\ entered' = entered \cup {"particle"}
    /\ UNCHANGED <<raw_data, gas_risk_result, other_risk_result, final_aqi_score,
                   recommendation_index, rec_text, forecast_risk_score,
                   forecast_text,
                   reports, forecast_input, sim_vars>>

\* 2. Gases.
GasStage ==
    /\ pc = "gas"
    /\ LET inputs_values ==
               [co  |-> Reading(current_data, "carbon_monoxide"),
                no2 |-> Reading(current_data, "nitrogen_dioxide"),
                so2 |-> Reading(current_data, "sulphur_dioxide")]
       IN  \E result \in {GasCompute(inputs_values)} :
           /\ gas_risk_result' = result
           /\ raised' = IF result = None THEN raised \cup {"gas"} ELSE raised
           /\ pc' = IF result = None THEN OnException("other") ELSE "other"
    /\ entered' = entered \cup {"gas"}
    /\ UNCHANGED <<raw_data, particle_risk_result, other_risk_result,
                   final_aqi_score, recommendation_index, rec_text,
                   forecast_risk_score, forecast_text,
                   reports, forecast_input, sim_vars>>

\* 3. Others.
OtherStage ==
    /\ pc = "other"
    /\ LET inputs_values ==
               [o3  |-> Reading(current_data, "ozone"),
                nh3 |-> Reading(current_data, "ammonia")]
       IN  \E result \in {OtherCompute(inputs_values)} :
           /\ other_risk_result' = result
           /\ raised' = IF result = None THEN raised \cup {"other"} ELSE raised
           /\ pc' = IF result = None THEN OnException("master") ELSE "master"
    /\ entered' = entered \cup {"other"}
    /\ UNCHANGED <<raw_data, particle_risk_result, gas_risk_result,
                   final_aqi_score, recommendation_index, rec_text,
                   forecast_risk_score, forecast_text,
                   reports, forecast_input, sim_vars>>

\* 4. Master system: run when all three risks are there, else skipped.
MasterStage ==
    /\ pc = "master"
    /\ IF MasterReady(particle_risk_result, gas_risk_result, other_risk_result)
       THEN LET inputs_values ==
                    [particle_risk_in |-> particle_risk_result,
                     gas_risk_in      |-> gas_risk_result,
                     other_risk_in    |-> other_risk_result]
            IN  \E out \in {MasterCompute(inputs_values)} :
                /\ entered' = entered \cup {"master"}
                /\ IF ~Raises(out)
                   THEN /\ final_aqi_score' = out.Final_AQI
                        /\ recommendation_index' = out.Recommendation
                        /\ rec_text' = RecommendationText(out.Recommendation)
                        /\ pc' = "forecast"
                        /\ UNCHANGED raised
                   ELSE /\ raised' = raised \cup {"master"}
                        /\ pc' = OnException("forecast")
                        /\ UNCHANGED <<final_aqi_score, recommendation_index, rec_text>>
       ELSE /\ pc' = "forecast"
            /\ UNCHANGED <<final_aqi_score, recommendation_index, rec_text,
                           entered, raised>>
    /\ UNCHANGED <<raw_data, particle_risk_result, gas_risk_result,
                   other_risk_result, forecast_risk_score, forecast_text,
                   reports, forecast_input, sim_vars>>

\* The condition under which the forecast is cancelled with a warning.
NoHourlyData(h) ==
    DOMAIN h = {} \/ "pm2_5" \notin DOMAIN h \/ h["pm2_5"] = <<>>

\* The keys of forecast_inputs with the key that is no input of the engine.
UnfilteredKeys(keys, antecedent_labels) == keys

\* `if key in antecedent_labels`: the keys that are passed to the engine.
InputKeys(keys, antecedent_labels) == keys \cap antecedent_labels

\* {var.label for var in forecast_engine_ctrl.antecedents}
ForecastLabels == {"pm_avg", "pm_max", "pm_hours_bad", "gas_norm_risk", "o3_max"}

\* The keys of the mapping preprocess_hourly_data returned.
StatisticKeys(forecast_inputs) ==
    IF forecast_inputs.empty THEN {} ELSE DOMAIN forecast_inputs \ {"empty"}

\* 5. Forecast system.
ForecastStage ==
    /\ pc = "forecast"
    /\ entered' = entered \cup {"forecast"}
    /\ IF NoHourlyData(hourly_data)
       THEN /\ pc' = "report"
            /\ UNCHANGED <<forecast_risk_score, forecast_text, raised, forecast_input>>
       ELSE \E forecast_inputs \in {preprocess_hourly_data(hourly_data, 24)} :
                IF forecast_inputs.empty
                THEN /\ pc' = "report"
                     /\ UNCHANGED <<forecast_risk_score, forecast_text, raised,
                                    forecast_input>>
                ELSE /\ forecast_input' =
                            [key \in InputKeys(StatisticKeys(forecast_inputs), ForecastLabels)
                                |-> forecast_inputs[key]]
                     \* an unexpected input raises when it is set, a missing
                     \* one when compute() is called
                     /\ \E risk \in {IF DOMAIN forecast_input' = ForecastLabels
                                      THEN ForecastCompute(forecast_input') ELSE None} :
                           IF risk = None
                           THEN /\ pc' = OnException("report")
                                /\ raised' = raised \cup {"forecast"}
                                /\ UNCHANGED <<forecast_risk_score, forecast_text>>
                           ELSE /\ pc' = "report"
                                /\ forecast_risk_score' = risk
                                /\ forecast_text' =
                                       ForecastText(risk, forecast_inputs.pm_peak_hour)
                                /\ UNCHANGED raised
    /\ UNCHANGED <<raw_data, particle_risk_result, gas_risk_result,
                   other_risk_result, final_aqi_score, recommendation_index,
                   rec_text, reports, sim_vars>>

\* The consolidated report: 0.0 and "not computed" stand in for a missing AQI.
SummaryReport ==
    /\ pc = "report"
    /\ IF final_aqi_score = None
       THEN /\ final_aqi_score' = Whole(0)
            /\ rec_text' = "not_computed"
       ELSE UNCHANGED <<final_aqi_score, rec_text>>
    /\ pc' = "done"
    /\ reports' = Append(reports, Report(FALSE, final_aqi_score', rec_text'))
    /\ UNCHANGED <<raw_data, particle_risk_result, gas_risk_result,
                   other_risk_result, recommendation_index, forecast_risk_score,
                   forecast_text, entered, raised, forecast_input, sim_vars>>

(***************************************************************************)
(* The data run_fuzzy_logic is started on.                                 *)
(***************************************************************************)
CurrentKeys ==
    {"pm2_5", "pm10", "aerosol_optical_depth", "dust", "carbon_monoxide",
     "nitrogen_dioxide", "sulphur_dioxide", "ozone", "ammonia"}

Current(pm25, pm10v, aodv, dustv, cov, no2v, so2v, o3v, nh3v) ==
    [pm2_5 |-> Whole(pm25), pm10 |-> Whole(pm10v),
     aerosol_optical_depth |-> Whole(aodv), dust |-> Whole(dustv),
     carbon_monoxide |-> Whole(cov), nitrogen_dioxide |-> Whole(no2v),
     sulphur_dioxide |-> Whole(so2v), ozone |-> Whole(o3v), ammonia |-> Whole(nh3v)]

\* The end-to-end scenario of the specification (aod 1.0 is 10 tenths).
EndToEnd == Current(150, 200, 10, 100, 5000, 50, 50, 60, 20)
CleanAir == Current(0, 0, 0, 0, 0, 0, 0, 0, 0)

BaseCurrents ==
    {EndToEnd, CleanAir,
     Current(0, 0, 0, 0, 20000, 0, 0, 0, 0),      \* one gas hazardous
     Current(0, 0, 0, 0, 0, 0, 0, 300, 0),        \* ozone hazardous
     Current(0, 0, 0, 0, 0, 0, 0, 0, 150),        \* ammonia medium, ozone good
     Current(20, 0, 0, 0, 0, 0, 0, 0, 0),         \* pm2_5 moderate
     Current(800, 0, 0, 0, 0, 0, 0, 0, 0),        \* beyond the pm2_5 universe
     [k \in CurrentKeys |-> Bad]}                 \* nothing is a number

\* One key absent, null or not a number.
Damaged(c) ==
    {[k \in DOMAIN c \ {key} |-> c[k]] : key \in DOMAIN c}
    \cup {[c EXCEPT ![key] = v] : key \in DOMAIN c, v \in {None, Bad}}

CurrentScenarios ==
    {EmptyDict} \cup BaseCurrents \cup Damaged(EndToEnd) \cup Damaged(CleanAir)

Stamp(h) == [valid |-> TRUE, hour |-> h]

HourlyScenarios ==
    {EmptyDict,
     [time |-> <<Stamp(0), Stamp(1), Stamp(2)>>],
     [time |-> <<Stamp(0), Stamp(1), Stamp(2)>>, pm2_5 |-> <<>>],
     [pm2_5 |-> <<5, 5, 5>>],
     [time |-> <<Stamp(0), Stamp(1), Stamp(2)>>, pm2_5 |-> <<5, 5, 5>>,
      sulphur_dioxide |-> <<7, 7, 7>>, nitrogen_dioxide |-> <<6, 6, 6>>,
      carbon_monoxide |-> <<150, 150, 150>>, ozone |-> <<40, 40, 40>>],
     [time |-> <<Stamp(17), Stamp(18), Stamp(19)>>, pm2_5 |-> <<20, 200, 20>>,
      sulphur_dioxide |-> <<70, 70, 70>>, ozone |-> <<40, 60, 40>>]}

SimIdle ==
    /\ sim_engine = "none"
    /\ sim_input = EmptyDict
    /\ sim_state = "ready"
    /\ sim_firing = EmptyDict
    /\ sim_output = EmptyDict

Init ==
    /\ pc = "start"
    /\ raw_data \in {[current |-> c, hourly |-> h] :
                        c \in CurrentScenarios, h \in HourlyScenarios}
                    \cup {[current |-> EndToEnd], [hourly |-> EmptyDict]}
    /\ particle_risk_result = None
    /\ gas_risk_result = None
    /\ other_risk_result = None
    /\ final_aqi_score = None
    /\ recommendation_index = None
    /\ rec_text = "unset"
    /\ forecast_risk_score = None
    /\ forecast_text = [level |-> "unset", peak |-> ""]
    /\ entered = {}
    /\ raised = {}
    /\ reports = <<>>
    /\ forecast_input = EmptyDict
    /\ SimIdle

Next ==
    \/ Start
    \/ ParticleStage
    \/ GasStage
    \/ OtherStage
    \/ MasterStage
    \/ ForecastStage
    \/ SummaryReport

Spec == Init /\ [][Next]_vars

(***************************************************************************)
(* The menu loop of main(): run_fuzzy_logic is called again and again in   *)
(* one process, each call on the data of the scenario chosen then.         *)
(***************************************************************************)
\* Number of calls of run_fuzzy_logic in one process.
MaxRuns == 3

\* The scenarios the menu offers: a full run with a forecast, a run on clean
\* air without hourly data, a run in which every block raises, and a run
\* cancelled for want of 'current' data.
RerunScenarios ==
    {[current |-> EndToEnd,
      hourly |-> [time |-> <<Stamp(17), Stamp(18), Stamp(19)>>,
                  pm2_5 |-> <<20, 200, 20>>,
                  sulphur_dioxide |-> <<70, 70, 70>>, ozone |-> <<40, 60, 40>>]],
     [current |-> CleanAir, hourly |-> EmptyDict],
     [current |-> [k \in CurrentKeys |-> Bad],
      hourly |-> [time |-> <<Stamp(0), Stamp(1), Stamp(2)>>]],
     [hourly |-> [time |-> <<Stamp(0), Stamp(1), Stamp(2)>>, pm2_5 |-> <<5, 5, 5>>]]}

\* The locals of the previous call kept where each call has its own.
SameFrame(previous, unbound) == previous

\* A call of run_fuzzy_logic has its own locals: nothing of the previous
\* call is left in them.
NewFrame(previous, unbound) == unbound

\* main() comes back to the menu and the next choice calls run_fuzzy_logic.
Rerun ==
    /\ pc \in {"done", "cancelled"}
    /\ Len(reports) < MaxRuns
    /\ raw_data' \in RerunScenarios
    /\ pc' = "start"
    /\ particle_risk_result' = NewFrame(particle_risk_result, None)
    /\ gas_risk_result' = NewFrame(gas_risk_result, None)
    /\ other_risk_result' = NewFrame(other_risk_result, None)
    /\ final_aqi_score' = NewFrame(final_aqi_score, None)
    /\ recommendation_index' = NewFrame(recommendation_index, None)
    /\ rec_text' = NewFrame(rec_text, "unset")
    /\ forecast_risk_score' = NewFrame(forecast_risk_score, None)
    /\ forecast_text' = NewFrame(forecast_text, [level |-> "unset", peak |-> ""])
    /\ entered' = {}
    /\ raised' = {}
    /\ forecast_input' = NewFrame(forecast_input, EmptyDict)
    /\ UNCHANGED <<reports, sim_vars>>

InitRerun ==
    /\ pc = "start"
    /\ raw_data \in RerunScenarios
    /\ particle_risk_result = None
    /\ gas_risk_result = None
    /\ other_risk_result = None
    /\ final_aqi_score = None
    /\ recommendation_index = None
    /\ rec_text = "unset"
    /\ forecast_risk_score = None
    /\ forecast_text = [level |-> "unset", peak |-> ""]
    /\ entered = {}
    /\ raised = {}
    /\ reports = <<>>
    /\ forecast_input = EmptyDict
    /\ SimIdle

SpecRerun == InitRerun /\ [][Next \/ Rerun]_vars

(***************************************************************************)
(* One evaluation of an engine on its own: a ControlSystemSimulation is    *)
(* given its inputs and compute() is called once.  The inputs are drawn    *)
(* from the breakpoints of the terms, points on their ramps and the values *)
(* the documentation names.                                                *)
(***************************************************************************)
\* Number of parts a ramp of a membership function is divided in.
RampGrid == 2

\* Number of parts the risk universe 0..100 is divided in.
MasterGrid == 10

Breakpoints(v) ==
    {v.terms[l][i] : l \in DOMAIN v.terms, i \in 1..4}

\* The breakpoints and the points dividing every ramp in RampGrid parts.
Samples(v) ==
    Breakpoints(v) \cup
    {v.terms[l][i] + (k * (v.terms[l][i + 1] - v.terms[l][i])) \div RampGrid :
        l \in DOMAIN v.terms, i \in {1, 3}, k \in 1..(RampGrid - 1)}

GasInputs ==
    {[co |-> Whole(c), no2 |-> Whole(n), so2 |-> Whole(s)] :
        c \in Samples(co) \cup {5000, 20000},
        n \in Samples(no2) \cup {50},
        s \in Samples(so2) \cup {50}}

ParticleInputs ==
    {[pm2_5 |-> Whole(p), pm10 |-> Whole(q), aod |-> Whole(a), dust |-> Whole(d)] :
        p \in Samples(pm2_5),
        q \in Breakpoints(pm10) \cup {200},
        a \in Breakpoints(aod),
        d \in Breakpoints(dust) \cup {100}}

RiskSamples ==
    {(100 * k) \div MasterGrid : k \in 0..MasterGrid} \cup {10, 20, 40, 90}

MasterInputs ==
    {[particle_risk_in |-> Whole(p), gas_risk_in |-> Whole(g),
      other_risk_in |-> Whole(o)] :
        p \in RiskSamples, g \in RiskSamples, o \in RiskSamples}

\* run_fuzzy_logic is not running.
PipelineIdle ==
    /\ pc = "idle"
    /\ raw_data = EmptyDict
    /\ particle_risk_result = None
    /\ gas_risk_result = None
    /\ other_risk_result = None
    /\ final_aqi_score = None
    /\ recommendation_index = None
    /\ rec_text = "unset"
    /\ forecast_risk_score = None
    /\ forecast_text = [level |-> "unset", peak |-> ""]
    /\ entered = {}
    /\ raised = {}
    /\ reports = <<>>
    /\ forecast_input = EmptyDict

\* ctrl.ControlSystemSimulation(engine) with its inputs set.
Simulation(engine, inputs) ==
    /\ PipelineIdle
    /\ sim_engine = engine
    /\ sim_input \in inputs
    /\ sim_state = "ready"
    /\ sim_firing = EmptyDict
    /\ sim_output = EmptyDict

\* The effect of compute(): the firing strengths and the output, or a raise.
Computed(firing, name, out) ==
    /\ sim_state = "ready"
    /\ sim_firing' = firing
    /\ IF out = None
       THEN sim_state' = "raised" /\ sim_output' = EmptyDict
       ELSE sim_state' = "computed" /\ sim_output' = [k \in {name} |-> out]
    /\ UNCHANGED <<pipeline_vars, sim_engine, sim_input>>

GasSimulationCompute ==
    /\ sim_engine = "gas"
    /\ Computed(get_gas_rules(sim_input), "Gas_Risk", GasCompute(sim_input))

ParticleSimulationCompute ==
    /\ sim_engine = "particle"
    /\ Computed(get_particle_rules(sim_input), "Particle_Risk",
                ParticleCompute(sim_input))

MasterSimulationCompute ==
    /\ sim_engine = "master"
    /\ sim_state = "ready"
    /\ \E out \in {MasterCompute(sim_input)} :
           /\ sim_firing' = get_master_rules(sim_input)
           /\ IF ~Raises(out)
              THEN /\ sim_state' = "computed"
                   /\ sim_output' = [Final_AQI |-> out.Final_AQI,
                                     Recommendation |-> out.Recommendation]
              ELSE /\ sim_state' = "raised"
                   /\ sim_output' = EmptyDict
    /\ UNCHANGED <<pipeline_vars, sim_engine, sim_input>>

SpecGas ==
    Simulation("gas", GasInputs) /\ [][GasSimulationCompute]_vars

SpecParticle ==
    Simulation("particle", ParticleInputs) /\ [][ParticleSimulationCompute]_vars

SpecMaster ==
    Simulation("master", MasterInputs) /\ [][MasterSimulationCompute]_vars

ForecastInputs ==
    {[pm_avg |-> Whole(a), pm_max |-> Whole(m), pm_hours_bad |-> Whole(h),
      gas_norm_risk |-> Whole(g), o3_max |-> Whole(z)] :
        a \in Breakpoints(pm_avg),
        m \in Samples(pm_max),
        h \in Breakpoints(pm_hours_bad),
        g \in Breakpoints(gas_norm_risk),
        z \in Breakpoints(o3_max)}

ForecastSimulationCompute ==
    /\ sim_engine = "forecast"
    /\ Computed(forecast_rules(sim_input), "Forecast_Risk",
                ForecastCompute(sim_input))

SpecForecast ==
    Simulation("forecast", ForecastInputs) /\ [][ForecastSimulationCompute]_vars

(***************************************************************************)
(* One call of preprocess_hourly_data on its own.                          *)
(***************************************************************************)
\* Longest hourly array.
MaxLen == 3

\* Largest horizon tried besides the 24 hours run_fuzzy_logic asks for.
MaxHorizon == 4

Horizons == 0..MaxHorizon \cup {24}

\* Time arrays of every length: hours 21, 22, 23, 0, ...; bad holds the
\* positions of the timestamps datetime.fromisoformat cannot parse.
TimeArrays ==
    {[i \in 1..n |-> [valid |-> i \notin bad, hour |-> (20 + i) % 24]] :
        n \in 0..MaxLen, bad \in {{}, {1}, {2}}}

PmArrays == UNION {[1..n -> {20, 50, 200}] : n \in 0..MaxLen}

OzoneArrays == {SubSeq(<<40, 200, 60, 250>>, 1, n) : n \in 0..MaxLen}

\* Arrays of a gas around its threshold t: t/10 everywhere but for one 3t.
GasArrays(t) ==
    {[i \in 1..n |-> IF i = k THEN 3 * t ELSE t \div 10] : n \in 0..MaxLen, k \in 0..MaxLen}

\* Either one of the arrays (a singleton) or no array at all (the empty set).
Optional(arrays) == {{a} : a \in arrays} \cup {{}}

\* A mapping from the keys whose array is given.
Hourly(arrays) ==
    [k \in {key \in DOMAIN arrays : arrays[key] # {}} |->
        CHOOSE a \in arrays[k] : TRUE]

\* 24 hours of pm2_5 = 20 with one spike of 200 at index 18.
Spike24 ==
    [time  |-> [i \in 1..24 |-> Stamp(i - 1)],
     pm2_5 |-> [i \in 1..24 |-> IF i = 19 THEN 200 ELSE 20]]

PreprocessInputs ==
    {Hourly([time |-> t, pm2_5 |-> p, ozone |-> z]) :
        t \in Optional(TimeArrays),
        p \in Optional(PmArrays),
        z \in Optional(OzoneArrays)}
    \cup
    {Hourly([time |-> {[i \in 1..MaxLen |-> Stamp(i)]}, pm2_5 |-> {<<20>>},
             sulphur_dioxide |-> s, nitrogen_dioxide |-> n, carbon_monoxide |-> c]) :
        s \in Optional(GasArrays(700)),
        n \in Optional(GasArrays(600)),
        c \in Optional(GasArrays(15000))}
    \cup {Spike24}

PreprocessCall ==
    /\ sim_engine = "preprocessor"
    /\ sim_state = "ready"
    /\ sim_state' = "computed"
    /\ sim_output' = preprocess_hourly_data(sim_input.hourly_data,
                                            sim_input.hours_to_forecast)
    /\ UNCHANGED <<pipeline_vars, sim_engine, sim_input, sim_firing>>

SpecPreprocess ==
    /\ Simulation("preprocessor",
                  {[hourly_data |-> h, hours_to_forecast |-> H] :
                      h \in PreprocessInputs, H \in Horizons})
    /\ [][PreprocessCall]_vars

(***************************************************************************)
(* Evaluations of the particle, gas and other engines with one input at    *)
(* or past the plateau of its topmost term.                                *)
(***************************************************************************)
OtherSimulationCompute ==
    /\ sim_engine = "other"
    /\ Computed(get_other_rules(sim_input), "Other_Risk", OtherCompute(sim_input))

\* The input variables of an engine by the name the simulation knows them by.
EngineAntecedents(engine) ==
    CASE engine = "particle" -> [pm2_5 |-> pm2_5, pm10 |-> pm10, aod |-> aod, dust |-> dust]
      [] engine = "gas"      -> [co |-> co, no2 |-> no2, so2 |-> so2]
      [] engine = "other"    -> [o3 |-> o3, nh3 |-> nh3]

\* compute() of an engine on the inputs x: the output, or None when it raises.
EngineCompute(engine, x) ==
    CASE engine = "particle" -> ParticleCompute(x)
      [] engine = "gas"      -> GasCompute(x)
      [] engine = "other"    -> OtherCompute(x)

\* The topmost term of an input variable.
TopLabel(v) == IF "hazardous" \in DOMAIN v.terms THEN "hazardous" ELSE "high"

\* Where the rising ramp of the topmost term ends.
RisingEdge(v) == v.terms[TopLabel(v)][2]

\* The k-th point from the end of the rising ramp to the end of the
\* universe; the one after the last lies beyond the universe.
PastPoint(v, k) ==
    IF k <= RampGrid
    THEN RisingEdge(v) + (k * (v.hi - RisingEdge(v))) \div RampGrid
    ELSE v.hi + (v.hi - RisingEdge(v))

PastEdge(v) == {PastPoint(v, k) : k \in 0..(RampGrid + 1)}

\* The start of the plateau of every term and the points dividing the rising
\* ramp of the topmost term.
Levels(v) ==
    {v.terms[l][2] : l \in DOMAIN v.terms} \cup
    {v.terms[TopLabel(v)][1]
        + (k * (RisingEdge(v) - v.terms[TopLabel(v)][1])) \div RampGrid :
        k \in 1..(RampGrid - 1)}

\* A level for every input of the engine.
LevelChoices(engine) ==
    CASE engine = "particle" ->
            {[pm2_5 |-> p, pm10 |-> q, aod |-> a, dust |-> d] :
                p \in Levels(pm2_5), q \in Levels(pm10),
                a \in Levels(aod), d \in Levels(dust)}
      [] engine = "gas" ->
            {[co |-> c, no2 |-> n, so2 |-> z] :
                c \in Levels(co), n \in Levels(no2), z \in Levels(so2)}
      [] engine = "other" ->
            {[o3 |-> o, nh3 |-> n] : o \in Levels(o3), n \in Levels(nh3)}

\* One input past the rising edge of its topmost term, the others at a level.
MonotoneInputs(engine) ==
    {[n \in DOMAIN f |->
        Whole(IF n = top THEN PastPoint(EngineAntecedents(engine)[n], k) ELSE f[n])] :
        f \in LevelChoices(engine), top \in DOMAIN EngineAntecedents(engine),
        k \in 0..(RampGrid + 1)}

SpecMonotone ==
    /\ \/ Simulation("particle", MonotoneInputs("particle"))
       \/ Simulation("gas", MonotoneInputs("gas"))
       \/ Simulation("other", MonotoneInputs("other"))
    /\ [][ParticleSimulationCompute \/ GasSimulationCompute
            \/ OtherSimulationCompute]_vars

(***************************************************************************)
(* The fuzzification of one input variable at one point of its universe.   *)
(***************************************************************************)
\* The input variables of the five engines by label.
InputVariables ==
    [pm2_5 |-> pm2_5, pm10 |-> pm10, aod |-> aod, dust |-> dust,
     co |-> co, no2 |-> no2, so2 |-> so2, o3 |-> o3, nh3 |-> nh3,
     particle_risk_in |-> particle_risk_in, gas_risk_in |-> gas_risk_in,
     other_risk_in |-> other_risk_in,
     pm_avg |-> pm_avg, pm_max |-> pm_max, pm_hours_bad |-> pm_hours_bad,
     gas_norm_risk |-> gas_norm_risk, o3_max |-> o3_max]

\* np.arange(lo, hi + step, step)
Universe(v) == {v.lo + k * v.step : k \in 0..((v.hi - v.lo) \div v.step)}

UniversePoints ==
    UNION {{[name |-> n, value |-> Whole(x)] : x \in Universe(InputVariables[n])} :
              n \in DOMAIN InputVariables}

\* The degree of the value in every term of the variable.
Memberships ==
    /\ sim_engine = "membership"
    /\ sim_state = "ready"
    /\ sim_state' = "fuzzified"
    /\ sim_output' = [l \in DOMAIN InputVariables[sim_input.name].terms |->
                          Fuzzify(InputVariables[sim_input.name], l, sim_input.value)]
    /\ UNCHANGED <<pipeline_vars, sim_engine, sim_input, sim_firing>>

SpecMembership == Simulation("membership", UniversePoints) /\ [][Memberships]_vars

(***************************************************************************)
(* Calls of preprocess_hourly_data on data with malformed timestamps.      *)
(***************************************************************************)
\* Time arrays whose entries are a timestamp, a string that is none, or
\* null (None), which is no string at all.
MalformedTimeArrays ==
    UNION {[1..n -> {Stamp(21), [valid |-> FALSE, hour |-> 0], None}] : n \in 1..MaxLen}

MalformedInputs ==
    {Hourly([time |-> {t}, pm2_5 |-> p]) :
        t \in MalformedTimeArrays, p \in Optional(PmArrays)}

SpecMalformed ==
    /\ Simulation("preprocessor",
                  {[hourly_data |-> h, hours_to_forecast |-> H] :
                      h \in MalformedInputs, H \in Horizons})
    /\ [][PreprocessCall]_vars

\* Inputs at and beyond the ends of the universes.
OutOfRangeParticleInputs ==
    {[pm2_5 |-> Whole(p), pm10 |-> Whole(q), aod |-> Whole(a), dust |-> Whole(d)] :
        p \in {-5, 0, 500, 800},
        q \in {-1, 0, 200, 600, 700},
        a \in {0, 50, 60},
        d \in {0, 100, 1000, 1200}}

OutOfRangeForecastInputs ==
    {[pm_avg |-> Whole(a), pm_max |-> Whole(m), pm_hours_bad |-> Whole(h),
      gas_norm_risk |-> Whole(g), o3_max |-> Whole(z)] :
        a \in {0, 500, 600},
        m \in {0, 500, 600},
        h \in {0, 24, 30},
        g \in {-10, 0, 100, 200},
        z \in {0, 1000, 1100}}

SpecOutOfRange ==
    /\ \/ Simulation("particle", OutOfRangeParticleInputs)
       \/ Simulation("forecast", OutOfRangeForecastInputs)
    /\ [][ParticleSimulationCompute \/ ForecastSimulationCompute]_vars

(***************************************************************************)
(* Properties.                                                             *)
(***************************************************************************)

\* C1: in run_fuzzy_logic the master block is run if and only if the
\* particle, gas and other blocks each left a risk value; when one of the
\* three results is missing the master engine is skipped and the final AQI
\* and the recommendation stay unset (until the report substitutes 0.0).
C1_MasterIffAllRisks ==
    pc \in {"forecast", "report"} =>
        /\ ("master" \in entered) <=>
               (/\ particle_risk_result # None
                /\ gas_risk_result # None
                /\ other_risk_result # None)
        /\ "master" \notin entered =>
               (/\ final_aqi_score = None
                /\ recommendation_index = None
                /\ rec_text = "N/A")

\* C1 witness: the master block was skipped because the particle block left
\* no result while the gas block did.
C1_MasterSkipped ==
    /\ pc = "report"
    /\ "master" \notin entered
    /\ particle_risk_result = None
    /\ gas_risk_result # None
    /\ final_aqi_score = None

\* C2: with a non-empty 'current' mapping, a block that raises stops nothing
\* but itself: every step of the run leads from a block to the next one,
\* raised or not (particle, gas, other, master, forecast, report), and the
\* report is printed after all of particle, gas, other and forecast were run.
C2_FailureConfined ==
    [][/\ pc = "particle" => pc' = "gas"
       /\ pc = "gas" => pc' = "other"
       /\ pc = "other" => pc' = "master"
       /\ pc = "master" => pc' = "forecast"
       /\ pc = "forecast" => pc' = "report"
       /\ pc = "report" =>
              /\ pc' = "done"
              /\ {"particle", "gas", "other", "forecast"} \subseteq entered']_vars

\* C2 witness: all three subsystem blocks raised and the report was printed.
C2_AllSubsystemsRaised ==
    /\ pc = "done"
    /\ raised = {"particle", "gas", "other"}
    /\ "forecast" \in entered

\* C3: in the gas engine, when one of co, no2, so2 is fully hazardous, Gas_Risk
\* is in the critical band (75 and above), whatever the other two gases are.
C3_HazardousGasIsCritical ==
    (/\ sim_engine = "gas"
     /\ sim_state = "computed"
     /\ \/ Fuzzify(co, "hazardous", sim_input.co) = DS
        \/ Fuzzify(no2, "hazardous", sim_input.no2) = DS
        \/ Fuzzify(so2, "hazardous", sim_input.so2) = DS)
    => QGe(sim_output["Gas_Risk"], Whole(75))

\* C4: in the gas engine, when one gas is fully hazardous and the other two
\* are fully good (as co = 20000, no2 = 0, so2 = 0), only the any-hazardous
\* rule fires, the all-good rule has strength 0, and Gas_Risk >= 90.
C4_HazardousAloneIsCritical ==
    LET haz  == [g \in {"co", "no2", "so2"} |->
                    Fuzzify(CASE g = "co" -> co [] g = "no2" -> no2 [] OTHER -> so2,
                            "hazardous", sim_input[g])]
        good == [g \in {"co", "no2", "so2"} |->
                    Fuzzify(CASE g = "co" -> co [] g = "no2" -> no2 [] OTHER -> so2,
                            "good", sim_input[g])]
    IN  (/\ sim_engine = "gas"
         /\ sim_state # "ready"
         /\ \E h \in {"co", "no2", "so2"} :
                /\ haz[h] = DS
                /\ \A g \in {"co", "no2", "so2"} \ {h} : good[g] = DS)
        => /\ sim_state = "computed"
           /\ sim_firing.rule1 = DS
           /\ sim_firing.rule2 = 0
           /\ sim_firing.rule3 = 0
           /\ sim_firing.rule4 = 0
           /\ QGe(sim_output["Gas_Risk"], Whole(90))

\* C4 witness: the engine was evaluated on co = 20000, no2 = 0, so2 = 0.
C4_Example ==
    /\ sim_engine = "gas"
    /\ sim_state = "computed"
    /\ sim_input = [co |-> Whole(20000), no2 |-> Whole(0), so2 |-> Whole(0)]
    /\ sim_firing.rule1 = DS

\* C5: in the particle engine, when pm2_5 is above 140 (the hazardous rule
\* fires), Particle_Risk is 75 or more for every pm10, aod and dust.
C5_HazardousPm25IsCritical ==
    (/\ sim_engine = "particle"
     /\ sim_state = "computed"
     /\ QLt(Whole(140), sim_input.pm2_5))
    => QGe(sim_output["Particle_Risk"], Whole(75))

\* C6: end to end, for pm2_5 = 150, pm10 = 200, aod = 1.0, dust = 100,
\* co = 5000, no2 = 50, so2 = 50, o3 = 60, nh3 = 20, Gas_Risk and Other_Risk
\* are in the low band (at most 30) and Final_AQI is 190 or more.
C6_EndToEnd ==
    (pc = "forecast" /\ current_data = EndToEnd)
    => /\ "master" \in entered
       /\ gas_risk_result # None /\ QLe(gas_risk_result, Whole(30))
       /\ other_risk_result # None /\ QLe(other_risk_result, Whole(30))
       /\ final_aqi_score # None /\ QGe(final_aqi_score, Whole(190))

\* C7: in the master engine, when one input is fully critical (90 or more),
\* only the any-critical rule fires, Final_AQI >= 190 and Recommendation <= 3,
\* whatever the other two inputs are.
C7_CriticalDominates ==
    (/\ sim_engine = "master"
     /\ sim_state # "ready"
     /\ \E k \in DOMAIN sim_input : QGe(sim_input[k], Whole(90)))
    => /\ sim_state = "computed"
       /\ sim_firing.rule1 > 0
       /\ sim_firing.rule2 = 0
       /\ sim_firing.rule3 = 0
       /\ sim_firing.rule3_5 = 0
       /\ sim_firing.rule4 = 0
       /\ QGe(sim_output["Final_AQI"], Whole(190))
       /\ QLe(sim_output["Recommendation"], Whole(3))

\* C7 witness: particle risk 90 with a high gas risk and no other risk.
C7_Example ==
    /\ sim_engine = "master"
    /\ sim_state = "computed"
    /\ sim_input = [particle_risk_in |-> Whole(90), gas_risk_in |-> Whole(60),
                    other_risk_in |-> Whole(0)]

\* C8: in the master engine, for every input triple, the strengths of rule2,
\* rule3 and rule3_5 are at most 1 minus the largest critical degree, those
\* of rule3 and rule3_5 at most 1 minus the largest high degree, and rule4 is
\* 0 when some input has a positive high or critical degree.
C8_Guards ==
    LET deg(l) == {Fuzzify(particle_risk_in, l, sim_input.particle_risk_in),
                   Fuzzify(gas_risk_in, l, sim_input.gas_risk_in),
                   Fuzzify(other_risk_in, l, sim_input.other_risk_in)}
        crit == SetMax(deg("critical"))
        high == SetMax(deg("high"))
    IN  (sim_engine = "master" /\ sim_state # "ready")
        => /\ sim_firing.rule2 <= DS - crit
           /\ sim_firing.rule3 <= DS - crit
           /\ sim_firing.rule3_5 <= DS - crit
           /\ sim_firing.rule3 <= DS - high
           /\ sim_firing.rule3_5 <= DS - high
           /\ (crit > 0 \/ high > 0) => sim_firing.rule4 = 0

\* C8 witness: a partly critical input holds the any-high rule down (80 is
\* critical to degree 1/3, so rule2 fires with 2/3 though 60 is fully high).
C8_GuardActs ==
    /\ sim_engine = "master"
    /\ sim_state = "computed"
    /\ sim_input = [particle_risk_in |-> Whole(80), gas_risk_in |-> Whole(60),
                    other_risk_in |-> Whole(0)]
    /\ sim_firing.rule1 = 20
    /\ sim_firing.rule2 = 40

\* C9: in the master engine, when all three inputs are at most 45 and one is
\* fully medium (30..45), as for 20, 40, 10, the all-low rule does not fire and
\* Final_AQI is between 40 and 110.
C9_ModerateBand ==
    (/\ sim_engine = "master"
     /\ sim_state # "ready"
     /\ \A k \in DOMAIN sim_input : QLe(sim_input[k], Whole(45))
     /\ \E k \in DOMAIN sim_input :
            QGe(sim_input[k], Whole(30)) /\ QLe(sim_input[k], Whole(45)))
    => /\ sim_state = "computed"
       /\ sim_firing.rule4 = 0
       /\ QGe(sim_output["Final_AQI"], Whole(40))
       /\ QLe(sim_output["Final_AQI"], Whole(110))

\* C9 witness: the engine was evaluated on 20, 40, 10 and the transitional
\* rule fired.
C9_Example ==
    /\ sim_engine = "master"
    /\ sim_state = "computed"
    /\ sim_input = [particle_risk_in |-> Whole(20), gas_risk_in |-> Whole(40),
                    other_risk_in |-> Whole(10)]
    /\ sim_firing.rule3_5 > 0

\* C10: when all three master inputs are fully low (15 or less), Final_AQI is
\* at most 60 and the threshold map takes the Recommendation index to the
\* 'perfect day' text.
C10_AllLowIsPerfectDay ==
    (/\ sim_engine = "master"
     /\ sim_state # "ready"
     /\ \A k \in DOMAIN sim_input : QLe(sim_input[k], Whole(15)))
    => /\ sim_state = "computed"
       /\ QLe(sim_output["Final_AQI"], Whole(60))
       /\ RecommendationText(sim_output["Recommendation"]) = "perfect_day"

\* C11: when a pollutant field a subsystem needs is absent from, or null in,
\* the 'current' mapping, the subsystem produces no risk score (the evaluation
\* is incomplete) instead of computing one from a substituted value.
C11_MissingInputIsIncomplete ==
    LET missing(keys) ==
            \E k \in keys : k \notin DOMAIN current_data \/ current_data[k] = None
    IN  pc \in {"master", "forecast", "report", "done"} =>
            /\ missing({"pm2_5", "pm10", "aerosol_optical_depth", "dust"})
                   => particle_risk_result = None
            /\ missing({"carbon_monoxide", "nitrogen_dioxide", "sulphur_dioxide"})
                   => gas_risk_result = None
            /\ missing({"ozone", "ammonia"}) => other_risk_result = None

\* C12: a block whose aggregated output set is all zero, or that fails in
\* another way, leaves its result unset: the result is never 0, an unset
\* result is never given to the master engine, and Final_AQI is 0.0 only in
\* the report, together with the 'not computed' text.
C12_UnsetNeverZero ==
    LET result == [particle |-> particle_risk_result, gas |-> gas_risk_result,
                   other |-> other_risk_result, master |-> recommendation_index]
        o3_in  == Reading(current_data, "ozone")
        nh3_in == Reading(current_data, "ammonia")
        other_all_zero ==
            /\ IsNumber(o3_in) /\ IsNumber(nh3_in)
            /\ \A r \in {"rule1", "rule2", "rule3", "rule4", "rule5", "rule6"} :
                   get_other_rules([o3 |-> o3_in, nh3 |-> nh3_in])[r] = 0
    IN  /\ \A b \in raised \cap DOMAIN result : result[b] = None
        /\ \A b \in DOMAIN result : result[b] # None => result[b].n > 0
        /\ (pc \in {"master", "forecast", "report", "done"} /\ other_all_zero)
               => ("other" \in raised /\ other_risk_result = None)
        /\ "master" \in entered =>
               (/\ particle_risk_result # None
                /\ gas_risk_result # None
                /\ other_risk_result # None)
        /\ (final_aqi_score # None /\ final_aqi_score.n = 0) =>
               (pc = "done" /\ rec_text = "not_computed" /\ recommendation_index = None)
        /\ rec_text = "not_computed" => final_aqi_score = Whole(0)

\* C12 witness: ozone good and ammonia medium fire no rule of the other
\* engine; its result stayed unset, the master was skipped and the report
\* shows 0.0 with 'not computed'.
C12_AllZeroReported ==
    /\ pc = "done"
    /\ current_data = Current(0, 0, 0, 0, 0, 0, 0, 0, 150)
    /\ raised = {"other"}
    /\ other_risk_result = None
    /\ "master" \notin entered
    /\ final_aqi_score = Whole(0)
    /\ rec_text = "not_computed"

\* C13: a crisp input below the minimum or above the maximum of its universe
\* (pm2_5 = 800 on 0..500, a forecast gas_norm_risk above 100) raises no
\* error and gives exactly the outputs the nearest universe bound gives.
C13_OutOfRangeIsBound ==
    LET clamp(lo, hi, x) ==
            IF x.n < lo * x.d THEN Whole(lo)
            ELSE IF x.n > hi * x.d THEN Whole(hi) ELSE x
        x == sim_input
        expected ==
            IF sim_engine = "particle"
            THEN [Particle_Risk |-> ParticleCompute(
                     [pm2_5 |-> clamp(0, 500, x.pm2_5), pm10 |-> clamp(0, 600, x.pm10),
                      aod |-> clamp(0, 50, x.aod), dust |-> clamp(0, 1000, x.dust)])]
            ELSE [Forecast_Risk |-> ForecastCompute(
                     [pm_avg |-> clamp(0, 500, x.pm_avg),
                      pm_max |-> clamp(0, 500, x.pm_max),
                      pm_hours_bad |-> clamp(0, 24, x.pm_hours_bad),
                      gas_norm_risk |-> clamp(0, 100, x.gas_norm_risk),
                      o3_max |-> clamp(0, 1000, x.o3_max)])]
    IN  (sim_engine \in {"particle", "forecast"} /\ sim_state # "ready")
        => \E e \in {expected} :
               IF Raises(e) THEN sim_state = "raised"
               ELSE sim_state = "computed" /\ sim_output = e

\* C13 witness: the particle engine was evaluated on pm2_5 = 800 and the
\* forecast engine on gas_norm_risk = 200, and both delivered an output.
C13_Beyond ==
    /\ sim_state = "computed"
    /\ \/ sim_engine = "particle" /\ sim_input.pm2_5 = Whole(800)
       \/ sim_engine = "forecast" /\ sim_input.gas_norm_risk = Whole(200)

\* C14: in the forecast engine, when the peak statistic of a main pollutant is
\* fully high (pm_max >= 150, gas_norm_risk >= 60 or o3_max >= 190),
\* Forecast_Risk is 85 or more, whatever the other inputs are.
C14_PeakHighIsCritical ==
    (/\ sim_engine = "forecast"
     /\ sim_state = "computed"
     /\ \/ QGe(sim_input.pm_max, Whole(150))
        \/ QGe(sim_input.gas_norm_risk, Whole(60))
        \/ QGe(sim_input.o3_max, Whole(190)))
    => QGe(sim_output["Forecast_Risk"], Whole(85))

\* C15: the outcome of the forecast (skipped, failed, or Forecast_Risk with
\* its text) is a function of raw_data['hourly'] alone: when the run is over
\* it is what the hourly mapping by itself determines, whatever 'current' is
\* (empty or missing too) and whatever the other blocks did.
C15_ForecastOfHourlyAlone ==
    LET h == hourly_data
        stats == preprocess_hourly_data(h, 24)
        expected ==
            IF NoHourlyData(h) THEN None
            ELSE IF stats.empty THEN None
            ELSE ForecastCompute([pm_avg        |-> stats.pm_avg,
                                  pm_max        |-> stats.pm_max,
                                  pm_hours_bad  |-> stats.pm_hours_bad,
                                  gas_norm_risk |-> stats.gas_norm_risk,
                                  o3_max        |-> stats.o3_max])
    IN  pc \in {"done", "cancelled"} =>
            \E e \in {expected} :
                /\ forecast_risk_score = e
                /\ e # None => forecast_text = ForecastText(e, stats.pm_peak_hour)

\* C16: partial hourly data is no error: when 'hourly' has a non-empty 'time'
\* array the forecast block computes a Forecast_Risk, even with a pollutant
\* array (pm2_5 too) missing or empty; the forecast is skipped only when the
\* hourly data or its time axis is absent.
C16_PartialHourlyIsForecast ==
    pc = "done" =>
        (forecast_risk_score # None) <=>
            ("time" \in DOMAIN hourly_data /\ hourly_data["time"] # <<>>)

C18_FirstEntriesOnly ==
    (/\ sim_engine = "preprocessor" /\ sim_state = "computed"
     /\ "time" \in DOMAIN sim_input.hourly_data
     /\ sim_input.hourly_data["time"] # <<>>) =>
        LET h == sim_input.hourly_data
            H == sim_input.hours_to_forecast
            n == IF H < Len(h["time"]) THEN H ELSE Len(h["time"])
            First(a) == [i \in 1..(IF Len(a) < n THEN Len(a) ELSE n) |-> a[i]]
            pm == IF "pm2_5" \in DOMAIN h THEN First(h["pm2_5"]) ELSE <<>>
            oz == IF "ozone" \in DOMAIN h THEN First(h["ozone"]) ELSE <<>>
            bad == Cardinality({i \in DOMAIN pm : pm[i] > 40})
            out == sim_output
        IN  /\ out.pm_avg.d > 0 /\ out.pm_max.d > 0
            /\ out.pm_hours_bad.d > 0 /\ out.o3_max.d > 0
            /\ pm # <<>> =>
                  /\ out.pm_avg.n * Len(pm) = SeqSum(pm) * out.pm_avg.d
                  /\ \E i \in DOMAIN pm : out.pm_max.n = pm[i] * out.pm_max.d
                  /\ \A i \in DOMAIN pm : out.pm_max.n >= pm[i] * out.pm_max.d
            /\ out.pm_hours_bad.n = bad * out.pm_hours_bad.d
            /\ 0 <= bad /\ bad <= n
            /\ oz # <<>> =>
                  /\ \E i \in DOMAIN oz : out.o3_max.n = oz[i] * out.o3_max.d
                  /\ \A i \in DOMAIN oz : out.o3_max.n >= oz[i] * out.o3_max.d
            /\ out = preprocess_hourly_data(
                        [k \in DOMAIN h |-> IF k = "time" THEN h[k] ELSE First(h[k])], H)

\* C18 witness: the horizon cut off a pm2_5 reading above 40 that follows
\* readings all at or below 40, and no bad hour was counted.
C18_LaterReadingIgnored ==
    /\ sim_engine = "preprocessor" /\ sim_state = "computed"
    /\ ~sim_output.empty
    /\ "pm2_5" \in DOMAIN sim_input.hourly_data
    /\ sim_input.hours_to_forecast >= 1
    /\ sim_input.hours_to_forecast < Len(sim_input.hourly_data["time"])
    /\ \E i \in DOMAIN sim_input.hourly_data["pm2_5"] :
          /\ i > sim_input.hours_to_forecast
          /\ sim_input.hourly_data["pm2_5"][i] > 40
    /\ sim_output.pm_hours_bad = Whole(0)
    /\ sim_output.pm_max = Whole(20)

C20_GasNormRisk ==
    (sim_engine = "preprocessor" /\ sim_state = "computed" /\ ~sim_output.empty) =>
        LET RECURSIVE GCD(_, _)
            GCD(a, b) == IF b = 0 THEN a ELSE GCD(b, a % b)
            Lowest(q) == [n |-> q.n \div GCD(q.n, q.d), d |-> q.d \div GCD(q.n, q.d)]
            h == sim_input.hourly_data
            H == sim_input.hours_to_forecast
            n == IF H < Len(h["time"]) THEN H ELSE Len(h["time"])
            First(a) == [i \in 1..(IF Len(a) < n THEN Len(a) ELSE n) |-> a[i]]
            Mean(key, threshold) ==
                LET a == IF key \in DOMAIN h THEN First(h[key]) ELSE <<>>
                IN  IF a = <<>> THEN [n |-> 0, d |-> 1]
                    ELSE [n |-> SeqSum(a), d |-> threshold * Len(a)]
            means == {Mean("sulphur_dioxide", 700), Mean("nitrogen_dioxide", 600),
                      Mean("carbon_monoxide", 15000)}
            g == sim_output.gas_norm_risk
        IN  /\ g.d > 0
            /\ \E m \in means :
                  /\ \A o \in means \ {m} : o.n * m.d <= m.n * o.d
                  /\ Lowest(g) = Lowest([n |-> 100 * m.n, d |-> m.d])
            /\ (\E m \in means : m.n > m.d) => g.n > 100 * g.d

\* C20 witness: with no nitrogen dioxide array and a gas mean above its
\* threshold the normalised risk is above 100.
C20_AboveHundred ==
    /\ sim_engine = "preprocessor" /\ sim_state = "computed"
    /\ ~sim_output.empty
    /\ "nitrogen_dioxide" \notin DOMAIN sim_input.hourly_data
    /\ "sulphur_dioxide" \in DOMAIN sim_input.hourly_data
    /\ sim_output.gas_norm_risk.n > 100 * sim_output.gas_norm_risk.d

\* C21: with a non-empty 'time' array a missing or empty pollutant array
\* raises nothing and is zero-filled without affecting the other statistics:
\* no pm2_5 gives pm_avg = pm_max = pm_hours_bad = 0 and pm_peak_hour = -1, a
\* missing gas contributes 0 to gas_norm_risk, no ozone gives o3_max = 0.
C21_MissingArrayIsZeroFilled ==
    (/\ sim_engine = "preprocessor" /\ sim_state = "computed"
     /\ "time" \in DOMAIN sim_input.hourly_data
     /\ sim_input.hourly_data["time"] # <<>>) =>
        LET h == sim_input.hourly_data
            H == sim_input.hours_to_forecast
            out == sim_output
            gases == {"sulphur_dioxide", "nitrogen_dioxide", "carbon_monoxide"}
            Gone(key) == key \notin DOMAIN h \/ h[key] = <<>>
            Without(key) == [k \in DOMAIN h \ {key} |-> h[k]]
            Clean(key) == [k \in DOMAIN h \cup {key} |-> IF k = key THEN <<0>> ELSE h[k]]
            Same(x, y) == x = y \/ (x.n = 0 /\ y.n = 0 /\ x.d > 0 /\ y.d > 0)
            PmOf(r) == <<r.pm_avg, r.pm_max, r.pm_hours_bad, r.pm_peak_hour>>
        IN  /\ ~out.empty
            /\ Gone("pm2_5") => PmOf(out) = <<Whole(0), Whole(0), Whole(0), -1>>
            /\ Gone("ozone") => out.o3_max = Whole(0)
            /\ (\A key \in gases : Gone(key)) =>
                    out.gas_norm_risk.n = 0 /\ out.gas_norm_risk.d > 0
            /\ \A key \in gases :
                  /\ Gone(key) =>
                        Same(out.gas_norm_risk,
                             preprocess_hourly_data(Clean(key), H).gas_norm_risk)
                  /\ PmOf(preprocess_hourly_data(Without(key), H)) = PmOf(out)
                  /\ preprocess_hourly_data(Without(key), H).o3_max = out.o3_max
            /\ PmOf(preprocess_hourly_data(Without("ozone"), H)) = PmOf(out)
            /\ preprocess_hourly_data(Without("ozone"), H).gas_norm_risk = out.gas_norm_risk
            /\ preprocess_hourly_data(Without("pm2_5"), H).o3_max = out.o3_max
            /\ preprocess_hourly_data(Without("pm2_5"), H).gas_norm_risk = out.gas_norm_risk

\* C21 witness: a call without a pm2_5 array and with ozone readings has
\* returned the zero-filled pm statistics next to the ozone maximum.
C21_NoPmButOzone ==
    /\ sim_engine = "preprocessor" /\ sim_state = "computed"
    /\ "time" \in DOMAIN sim_input.hourly_data
    /\ "pm2_5" \notin DOMAIN sim_input.hourly_data
    /\ "sulphur_dioxide" \notin DOMAIN sim_input.hourly_data
    /\ ~sim_output.empty
    /\ sim_output.pm_avg = Whole(0) /\ sim_output.pm_peak_hour = -1
    /\ sim_output.gas_norm_risk.n = 0
    /\ sim_output.o3_max = Whole(200)

C23_MonotonePastEdge ==
    (sim_engine \in {"particle", "gas", "other"} /\ sim_state \in {"computed", "raised"}) =>
        LET RECURSIVE Le(_, _, _, _)
            \* a/b <= c/d for a, c >= 0 and b, d > 0, by continued fractions.
            Le(a, b, c, d) ==
                IF a \div b # c \div d THEN a \div b < c \div d
                ELSE IF a % b = 0 THEN TRUE
                ELSE IF c % d = 0 THEN FALSE
                ELSE Le(d, c % d, b, a % b)
        IN
        \A name \in DOMAIN sim_input :
            \A y \in PastEdge(EngineAntecedents(sim_engine)[name]) :
                (/\ sim_input[name].n >= RisingEdge(EngineAntecedents(sim_engine)[name])
                 /\ sim_input[name].n <= y) =>
                    \E at_y \in {EngineCompute(sim_engine,
                                       [sim_input EXCEPT ![name] = Whole(y)])} :
                        IF sim_state = "raised" THEN at_y = None
                        ELSE /\ at_y # None
                             /\ \A k \in DOMAIN sim_output :
                                    Le(sim_output[k].n, sim_output[k].d, at_y.n, at_y.d)

\* C23 witness: the gas engine was evaluated with co at 16000, the end of the
\* rising ramp of 'hazardous', next to a moderate no2, and gave a risk.
C23_AtTheEdge ==
    /\ sim_engine = "gas" /\ sim_state = "computed"
    /\ sim_input.co = Whole(16000)
    /\ sim_input.no2 = Whole(120)
    /\ 50000 \in PastEdge(co)
    /\ sim_output.Gas_Risk # None

\* C24: no dead zone: for every input variable of the particle, gas, other,
\* master and forecast engines and every point of its universe at least one
\* term of the variable has a degree above 0.
C24_NoDeadZone ==
    (sim_engine = "membership" /\ sim_state = "fuzzified") =>
        \E l \in DOMAIN sim_output : sim_output[l] > 0

\* C24 witness: at 3 bad hours, where the ramp of 'low' has come down to 0,
\* 'med' alone is left, at full degree.
C24_OneTermLeft ==
    /\ sim_engine = "membership" /\ sim_state = "fuzzified"
    /\ sim_input = [name |-> "pm_hours_bad", value |-> Whole(3)]
    /\ sim_output = [low |-> 0, med |-> DS, high |-> 0]

\* C25: master rule coverage: for every input triple in 0..100, the
\* combinations of low and medium included, at least one of the five master
\* rules fires with a positive strength, and Final_AQI and Recommendation
\* are defined.
C25_MasterCoverage ==
    (sim_engine = "master" /\ sim_state # "ready") =>
        /\ \E r \in DOMAIN sim_firing : sim_firing[r] > 0
        /\ sim_state = "computed"
        /\ sim_output.Final_AQI # None
        /\ sim_output.Recommendation # None

\* C25 witness: two risks purely low and one purely medium: rule4 does not
\* fire, rule3 does, and both outputs are there.
C25_LowLowMedium ==
    /\ sim_engine = "master" /\ sim_state = "computed"
    /\ sim_input = [particle_risk_in |-> Whole(0), gas_risk_in |-> Whole(10),
                    other_risk_in |-> Whole(40)]
    /\ sim_firing.rule4 = 0
    /\ sim_firing.rule1 = 0 /\ sim_firing.rule2 = 0
    /\ sim_firing.rule3 = DS
    /\ sim_output.Final_AQI # None

\* C26: other-engine rule coverage: for every pair (o3, nh3) within the
\* universes 0..1000 at least one of the six rules fires, so Other_Risk is
\* defined and the master stage is not skipped because of the combination of
\* in-range o3 and nh3 values.
C26_OtherCoverage ==
    (/\ pc \in {"master", "forecast", "report", "done"}
     /\ \A key \in {"ozone", "ammonia"} :
           /\ key \in DOMAIN current_data
           /\ IsNumber(current_data[key])
           /\ QLe(Whole(0), current_data[key])
           /\ QLe(current_data[key], Whole(1000))) =>
        /\ "other" \notin raised
        /\ other_risk_result # None
        /\ \E r \in DOMAIN get_other_rules([o3 |-> current_data["ozone"],
                                             nh3 |-> current_data["ammonia"]]) :
               get_other_rules([o3 |-> current_data["ozone"],
                                nh3 |-> current_data["ammonia"]])[r] > 0

\* C27: the transitional master rule3_5 never changes the result: its firing
\* strength is at most that of rule3, both imply the same consequents, and
\* the master engine without rule3_5 gives the same Final_AQI and
\* Recommendation.
C27_TransitionRuleIsRedundant ==
    (sim_engine = "master" /\ sim_state # "ready") =>
        /\ sim_firing.rule3_5 <= sim_firing.rule3
        /\ \E without \in {[sim_firing EXCEPT !.rule3_5 = 0]} :
              /\ AqiCuts(without) = AqiCuts(sim_firing)
              /\ RecCuts(without) = RecCuts(sim_firing)
              /\ \E out \in {[Final_AQI      |-> Defuzz(final_aqi, AqiCuts(without)),
                                Recommendation |-> Defuzz(recommendation, RecCuts(without))]} :
                    IF sim_state = "computed" THEN out = sim_output ELSE Raises(out)

\* C27 witness: rule3_5 fired, below rule3, and the outputs were computed.
C27_TransitionFired ==
    /\ sim_engine = "master" /\ sim_state = "computed"
    /\ sim_firing.rule3_5 > 0
    /\ sim_firing.rule3_5 < sim_firing.rule3
    /\ sim_output.Final_AQI # None

\* C28: whenever the forecast engine is computed each of its five inputs
\* (pm_avg, pm_max, pm_hours_bad, gas_norm_risk, o3_max) has been set from
\* the preprocessor result and pm_peak_hour has not been passed to it;
\* Forecast_Risk does not depend on the timestamps, which bear on the
\* peak-time text only.
C28_ForecastInputs ==
    /\ (forecast_risk_score # None \/ "forecast" \in raised) => forecast_input # EmptyDict
    /\ forecast_input # EmptyDict =>
          /\ DOMAIN forecast_input =
                {"pm_avg", "pm_max", "pm_hours_bad", "gas_norm_risk", "o3_max"}
          /\ "pm_peak_hour" \notin DOMAIN forecast_input
          /\ \A key \in DOMAIN forecast_input :
                forecast_input[key] = preprocess_hourly_data(hourly_data, 24)[key]
    /\ forecast_risk_score # None =>
          \A stamp \in {[valid |-> FALSE, hour |-> 0], [valid |-> TRUE, hour |-> 3]} :
              \E other \in {preprocess_hourly_data(
                                [hourly_data EXCEPT
                                    !["time"] = [i \in DOMAIN hourly_data["time"] |-> stamp]],
                                24)} :
                  /\ \A key \in DOMAIN forecast_input : other[key] = forecast_input[key]
                  /\ forecast_risk_score =
                        ForecastCompute([key \in DOMAIN forecast_input |-> other[key]])
                  /\ forecast_text.level =
                        ForecastText(forecast_risk_score, other.pm_peak_hour).level

\* C28 witness: a forecast was computed from the five statistics and the
\* timestamp of the peak put 'evening' in the text.
C28_EveningPeak ==
    /\ pc = "done"
    /\ forecast_risk_score # None
    /\ DOMAIN forecast_input = ForecastLabels
    /\ forecast_input.pm_max = Whole(200)
    /\ forecast_text.peak = "evening"

\* C29: preprocess_hourly_data is all-or-nothing: for every input, malformed
\* entries that make it raise part-way included, the mapping it returns is
\* empty or holds exactly the six keys pm_avg, pm_max, pm_hours_bad,
\* pm_peak_hour, gas_norm_risk, o3_max, and the input mapping is as it was.
C29_AllOrNothing ==
    [][(sim_engine = "preprocessor" /\ sim_state = "ready" /\ sim_state' = "computed") =>
          /\ sim_input' = sim_input
          /\ \/ sim_output' = EmptyInputs
             \/ /\ ~sim_output'.empty
                /\ DOMAIN sim_output' \ {"empty"} =
                      {"pm_avg", "pm_max", "pm_hours_bad", "pm_peak_hour",
                       "gas_norm_risk", "o3_max"}
                /\ \A key \in DOMAIN sim_output' \ {"empty", "pm_peak_hour"} :
                      IsNumber(sim_output'[key])]_vars

\* C29 witness: the timestamp at the peak of three pm2_5 readings is null;
\* the call raised after the pm statistics and has returned the empty mapping.
C29_RaisedPartWay ==
    /\ sim_engine = "preprocessor" /\ sim_state = "computed"
    /\ sim_input.hours_to_forecast = 24
    /\ "pm2_5" \in DOMAIN sim_input.hourly_data
    /\ sim_input.hourly_data["pm2_5"] = <<20, 200, 50>>
    /\ Len(sim_input.hourly_data["time"]) = 3
    /\ sim_input.hourly_data["time"][2] = None
    /\ sim_output = EmptyInputs

\* C30: the Final_AQI term 'unhealthy_S' (90..160) is the consequent of no
\* master rule and is never activated: the aggregated Final_AQI set is built
\* from the terms good, moderate, unhealthy and hazardous only.
C30_SensitiveTermUnused ==
    (sim_engine = "master" /\ sim_state # "ready") =>
        /\ "unhealthy_S" \in DOMAIN final_aqi.terms
        /\ final_aqi.terms["unhealthy_S"] = <<90, 110, 140, 160>>
        /\ DOMAIN AqiCuts(sim_firing) = {"good", "moderate", "unhealthy", "hazardous"}
        /\ \A i \in 110..140 : Aggregated(final_aqi, AqiCuts(sim_firing), i, 0) = 0

\* C30 witness: the terms on either side of 'unhealthy_S', moderate and
\* unhealthy, were both cut at a positive height and Final_AQI was computed.
C30_BothNeighboursCut ==
    /\ sim_engine = "master" /\ sim_state = "computed"
    /\ AqiCuts(sim_firing).moderate > 0
    /\ AqiCuts(sim_firing).unhealthy > 0
    /\ sim_output.Final_AQI # None

====
